---------------------------- MODULE Spec2Model ----------------------------
(***************************************************************************)
(* A model of the AI-Powered Resume Screener: the scorers and aggregator   *)
(* of resume_scanner/matching_engine.py, the job table of                  *)
(* resume_scanner/database_manager.py and the ranking run of               *)
(* main_application.py.                                                    *)
(*                                                                         *)
(* Python floats are modelled as exact rationals <<n, d>> with d > 0.      *)
(* Python str values are TLA+ strings; an entry of a skill list is a       *)
(* tagged tuple, <<"str", s>> for a str and <<"dict", skill, category>>    *)
(* for the dict entries the parser produces.                               *)
(***************************************************************************)
EXTENDS Integers, Sequences, FiniteSets, TLC

VARIABLES
    pc,            \* position of the scorer call under study (of every
                   \* worker's call, when several run on one engine)
    args,          \* arguments of that call
    ret,           \* its return value
    weights,       \* MatchingEngine.weights (self.weights), in hundredths
    vectorizer,    \* fitted state of MatchingEngine.vectorizer (self.vectorizer)
    jobpostings,   \* rows of the jobpostings table, jobid = position
    rankings,      \* rows of the ranking table, in insertion order
    rkpc,          \* position of rank_resumes_for_job
    run,           \* arguments and locals of the current or last ranking run
    outcome,       \* how the last call of rank_resumes_for_job ended
    seen           \* last result of a reader's get_top_candidates

scorerVars == <<pc, args, ret>>
rankVars == <<jobpostings, rankings, rkpc, run, outcome, seen>>
vars == <<pc, args, ret, weights, vectorizer, jobpostings, rankings, rkpc, run, outcome, seen>>

-----------------------------------------------------------------------------
(* Exact rational arithmetic standing for float arithmetic.                *)

RECURSIVE GCD(_, _)
GCD(a, b) == IF b = 0 THEN a ELSE GCD(b, a % b)

Abs(x) == IF x < 0 THEN -x ELSE x

Norm(q) ==
    LET g == GCD(Abs(q[1]), q[2])
    IN  IF q[1] = 0 THEN <<0, 1>> ELSE <<q[1] \div g, q[2] \div g>>

R(n, d) == Norm(<<n, d>>)
Zero == <<0, 1>>
One == <<1, 1>>

RAdd(a, b) == Norm(<<a[1] * b[2] + b[1] * a[2], a[2] * b[2]>>)
RSub(a, b) == Norm(<<a[1] * b[2] - b[1] * a[2], a[2] * b[2]>>)
RMul(a, b) == Norm(<<a[1] * b[1], a[2] * b[2]>>)
\* a / b for b > 0
RDiv(a, b) == Norm(<<a[1] * b[2], a[2] * b[1]>>)
RLe(a, b) == a[1] * b[2] <= b[1] * a[2]
RLt(a, b) == a[1] * b[2] < b[1] * a[2]
REq(a, b) == a[1] * b[2] = b[1] * a[2]
RMin(a, b) == IF RLe(a, b) THEN a ELSE b

-----------------------------------------------------------------------------
(* Python values.                                                          *)

\* str.lower() on the strings of the model
LowerStr(s) ==
    CASE s = "Python" -> "python"
      [] s = "SQL" -> "sql"
      [] s = "Bachelors" -> "bachelors"
      [] s = "PhD" -> "phd"
      [] OTHER -> s

Str(s) == <<"str", s>>
IsStr(v) == v[1] = "str"
\* s.lower() of a skill-list entry that is a str
lower(v) == Str(LowerStr(v[2]))

\* x in list
InList(x, list) == \E j \in DOMAIN list : list[j] = x

\* the sequences over S of length at most n
SeqsUpTo(S, n) == UNION {[1..k -> S] : k \in 0..n}

\* the TfidfVectorizer as constructed, before any fit: no idf vector
Unfitted == <<>>

\* the screener freshly constructed on an empty database: no job, no
\* ranking, no ranking run
FreshScreener ==
    /\ vectorizer = Unfitted
    /\ jobpostings = <<>>
    /\ rankings = <<>>
    /\ rkpc = "idle"
    /\ run = [kind |-> "none"]
    /\ outcome = [kind |-> "none"]
    /\ seen = [kind |-> "none"]

-----------------------------------------------------------------------------
(* MatchingEngine.__init__                                                 *)

\* self.weights, in hundredths
ReferenceWeights ==
    [skills |-> 40, experience |-> 25, education |-> 15, semantic |-> 20]

\* self.education_levels
education_levels ==
    [phd |-> 5, masters |-> 4, bachelors |-> 3, associate |-> 2,
     high_school |-> 1, unknown |-> 0]

\* self.education_levels.get(label, 0)
LevelOf(label) ==
    IF label \in DOMAIN education_levels THEN education_levels[label] ELSE 0

-----------------------------------------------------------------------------
(* The scorers.                                                            *)

\* the list comprehensions of calculate_skill_score call .lower() on every
\* entry; an entry that is not a str raises AttributeError
skill_score_raises(resume_skills, required_skills, preferred_skills) ==
    \/ \E i \in DOMAIN resume_skills : ~IsStr(resume_skills[i])
    \/ \E i \in DOMAIN required_skills : ~IsStr(required_skills[i])
    \/ \E i \in DOMAIN preferred_skills : ~IsStr(preferred_skills[i])

\* calculate_skill_score with the required coverage taken over the union of
\* the required and the candidate's skills
calculate_skill_score_jaccard(resume_skills, required_skills, preferred_skills) ==
    LET resume_lower == [i \in DOMAIN resume_skills |-> lower(resume_skills[i])]
        required_lower == [i \in DOMAIN required_skills |-> lower(required_skills[i])]
        preferred_lower == [i \in DOMAIN preferred_skills |-> lower(preferred_skills[i])]
        required_matches ==
            Cardinality({i \in DOMAIN required_lower :
                            InList(required_lower[i], resume_lower)})
        preferred_matches ==
            Cardinality({i \in DOMAIN preferred_lower :
                            InList(preferred_lower[i], resume_lower)})
        required_score ==
            IF Len(required_skills) = 0 THEN One
            ELSE R(required_matches,
                   Len(required_skills)
                     + Cardinality({i \in DOMAIN resume_lower :
                                      ~InList(resume_lower[i], required_lower)}))
        preferred_bonus ==
            IF Len(preferred_skills) = 0 THEN Zero
            ELSE RMul(R(preferred_matches, Len(preferred_skills)), R(1, 5))
    IN  RMin(RAdd(required_score, preferred_bonus), One)

\* calculate_skill_score without the min of line 42
calculate_skill_score_unclamped(resume_skills, required_skills, preferred_skills) ==
    LET resume_lower == [i \in DOMAIN resume_skills |-> lower(resume_skills[i])]
        required_lower == [i \in DOMAIN required_skills |-> lower(required_skills[i])]
        preferred_lower == [i \in DOMAIN preferred_skills |-> lower(preferred_skills[i])]
        required_matches ==
            Cardinality({i \in DOMAIN required_lower :
                            InList(required_lower[i], resume_lower)})
        preferred_matches ==
            Cardinality({i \in DOMAIN preferred_lower :
                            InList(preferred_lower[i], resume_lower)})
        required_score ==
            IF Len(required_skills) = 0 THEN One
            ELSE R(required_matches, Len(required_skills))
        preferred_bonus ==
            IF Len(preferred_skills) = 0 THEN Zero
            ELSE RMul(R(preferred_matches, Len(preferred_skills)), R(1, 5))
    IN  RAdd(required_score, preferred_bonus)

calculate_skill_score(resume_skills, required_skills, preferred_skills) ==
    LET resume_lower == [i \in DOMAIN resume_skills |-> lower(resume_skills[i])]
        required_lower == [i \in DOMAIN required_skills |-> lower(required_skills[i])]
        preferred_lower == [i \in DOMAIN preferred_skills |-> lower(preferred_skills[i])]
        required_matches ==
            Cardinality({i \in DOMAIN required_lower :
                            InList(required_lower[i], resume_lower)})
        preferred_matches ==
            Cardinality({i \in DOMAIN preferred_lower :
                            InList(preferred_lower[i], resume_lower)})
        required_score ==
            IF Len(required_skills) = 0 THEN One
            ELSE R(required_matches, Len(required_skills))
        preferred_bonus ==
            IF Len(preferred_skills) = 0 THEN Zero
            ELSE RMul(R(preferred_matches, Len(preferred_skills)), R(1, 5))
    IN  RMin(RAdd(required_score, preferred_bonus), One)

\* the scorer without the partial credit of line 53
calculate_experience_score_no_partial_credit(candidate_experience, required_experience) ==
    LET req == R(required_experience, 1)
    IN  IF required_experience = 0 THEN One
        ELSE IF RLe(req, candidate_experience)
             THEN LET bonus == RMin(RMul(RDiv(RSub(candidate_experience, req), req),
                                         R(1, 5)),
                                    R(1, 5))
                  IN  RMin(One, RAdd(One, bonus))
             ELSE Zero

\* candidate_experience is a rational, required_experience an integer
calculate_experience_score(candidate_experience, required_experience) ==
    LET req == R(required_experience, 1)
    IN  IF required_experience = 0 THEN One
        ELSE IF RLe(req, candidate_experience)
             THEN LET bonus == RMin(RMul(RDiv(RSub(candidate_experience, req), req),
                                         R(1, 5)),
                                    R(1, 5))
                  IN  RMin(One, RAdd(One, bonus))
             ELSE RDiv(candidate_experience, req)

calculate_education_score(candidate_education, required_education) ==
    LET candidate_level == LevelOf(LowerStr(candidate_education))
        required_level == LevelOf(LowerStr(required_education))
    IN  IF required_level = 0 THEN One
        ELSE IF candidate_level >= required_level THEN One
        ELSE IF candidate_level = required_level - 1 THEN R(7, 10)
        ELSE IF candidate_level > 0 THEN R(4, 10)
        ELSE Zero

\* The TF-IDF vectorizer and cosine_similarity of scikit-learn on the texts
\* of the model, unigrams and bigrams, smoothed idf, l2 norm.  A text is
\* named by its content after stop-word removal.  fit_transform raises
\* ValueError (empty vocabulary) when neither document has a term; a single
\* empty document gives a zero row and similarity 0.  The similarity of
\* "python" and "python django" is 1 / sqrt(1 + 2 * (ln(3/2) + 1)^2),
\* rounded here to thousandths.
Texts == {"", "python", "python django"}

fit_transform_raises(documents) == documents[1] = "" /\ documents[2] = ""

cosine_similarity(documents) ==
    IF documents[1] = "" \/ documents[2] = "" THEN Zero
    ELSE IF documents[1] = documents[2] THEN One
    ELSE R(449, 1000)

\* the unigrams and bigrams of a text
Terms(text) ==
    CASE text = "python" -> {"python"}
      [] text = "python django" -> {"django", "python", "python django"}
      [] OTHER -> {}

\* what fit leaves in the vectorizer: the document frequency of every term
\* of the vocabulary of the two documents, in column (sorted term) order;
\* the idf of a term is ln(3 / (1 + df)) + 1
fitted(documents) ==
    LET vocabulary ==
            SelectSeq(<<"django", "python", "python django">>,
                      LAMBDA t : t \in Terms(documents[1]) \cup Terms(documents[2]))
    IN  [i \in DOMAIN vocabulary |->
            Cardinality({j \in 1..2 : vocabulary[i] \in Terms(documents[j])})]

\* transform of the count matrix of the documents by a vectorizer in the
\* given state raises (NotFittedError, or ValueError on the number of
\* features) unless the state was fitted on as many features
transform_raises(documents, state) ==
    state = Unfitted \/ Len(state) # Len(fitted(documents))

\* the cosine similarity of the two rows when the counts are weighted with
\* the idf vector of the given state: 1 / sqrt(1 + 2 * (ln(3/2) + 1)^2) for
\* "python" against "python django" under their own idf, 1 / sqrt(3) under
\* an idf vector with equal entries
transform_similarity(documents, state) ==
    IF documents[1] = "" \/ documents[2] = "" THEN Zero
    ELSE IF documents[1] = documents[2] THEN One
    ELSE IF state = <<1, 2, 1>> THEN R(449, 1000)
    ELSE R(577, 1000)

\* the scorer with the except branch of lines 76-77 returning 1.0, two
\* texts without terms taken for identical texts
calculate_semantic_score_failure_as_match(resume_text, job_description) ==
    LET documents == <<resume_text, job_description>>
    IN  IF fit_transform_raises(documents) THEN One
        ELSE cosine_similarity(documents)

calculate_semantic_score(resume_text, job_description) ==
    LET documents == <<resume_text, job_description>>
    IN  IF fit_transform_raises(documents) THEN Zero
        ELSE cosine_similarity(documents)

\* dict.get(key, default)
Get(dict, key, default) == IF key \in DOMAIN dict THEN dict[key] ELSE default

\* the weighted sum of lines 95-98, the weights w in hundredths
WeightedSum(skill_score, experience_score, education_score, semantic_score, w) ==
    RAdd(RAdd(RAdd(RMul(skill_score, R(w.skills, 100)),
                   RMul(experience_score, R(w.experience, 100))),
              RMul(education_score, R(w.education, 100))),
         RMul(semantic_score, R(w.semantic, 100)))

\* calculate_overall_score raises what calculate_skill_score raises
overall_score_raises(resume_data, job_requirements) ==
    skill_score_raises(Get(resume_data, "skills", <<>>),
                       Get(job_requirements, "required_skills", <<>>),
                       Get(job_requirements, "preferred_skills", <<>>))

\* lines 80-93: the arguments read with their defaults and the four scorers
sub_scores(resume_data, job_requirements) ==
    LET resume_skills == Get(resume_data, "skills", <<>>)
        required_skills == Get(job_requirements, "required_skills", <<>>)
        preferred_skills == Get(job_requirements, "preferred_skills", <<>>)
        candidate_experience == Get(resume_data, "years_experience", Zero)
        required_experience == Get(job_requirements, "min_experience", 0)
        candidate_education == Get(resume_data, "education_level", "unknown")
        required_education ==
            Get(job_requirements, "education_requirement", "not_specified")
        resume_text == Get(resume_data, "raw_text", "")
        job_description == Get(job_requirements, "description", "")
    IN  [skill_score |->
            calculate_skill_score(resume_skills, required_skills, preferred_skills),
         experience_score |->
            calculate_experience_score(candidate_experience, required_experience),
         education_score |->
            calculate_education_score(candidate_education, required_education),
         semantic_score |->
            calculate_semantic_score(resume_text, job_description)]

\* lines 90-107 with the value line 93 got from calculate_semantic_score
score_vector(resume_data, job_requirements, semantic_score, selfweights) ==
    LET s == sub_scores(resume_data, job_requirements)
        overall_score ==
            WeightedSum(s.skill_score, s.experience_score, s.education_score,
                        semantic_score, selfweights)
    IN  [overall_score |-> RMin(overall_score, One),
         skill_score |-> s.skill_score,
         experience_score |-> s.experience_score,
         education_score |-> s.education_score,
         semantic_score |-> semantic_score]

\* self.vectorizer after calculate_overall_score, v before it: line 93 is
\* not reached when line 90 raises, and fit_transform leaves the idf vector
\* as it was when the vocabulary is empty
vectorizer_after(resume_data, job_requirements, v) ==
    LET documents == <<Get(resume_data, "raw_text", ""),
                       Get(job_requirements, "description", "")>>
    IN  IF overall_score_raises(resume_data, job_requirements)
           \/ fit_transform_raises(documents)
        THEN v
        ELSE fitted(documents)

\* calculate_overall_score without the clamp of line 99
calculate_overall_score_unclamped(resume_data, job_requirements, selfweights) ==
    LET s == sub_scores(resume_data, job_requirements)
        overall_score ==
            WeightedSum(s.skill_score, s.experience_score, s.education_score,
                        s.semantic_score, selfweights)
    IN  [overall_score |-> overall_score,
         skill_score |-> s.skill_score,
         experience_score |-> s.experience_score,
         education_score |-> s.education_score,
         semantic_score |-> s.semantic_score]

\* selfweights is self.weights at the time of the call
calculate_overall_score(resume_data, job_requirements, selfweights) ==
    LET s == sub_scores(resume_data, job_requirements)
        overall_score ==
            WeightedSum(s.skill_score, s.experience_score, s.education_score,
                        s.semantic_score, selfweights)
    IN  [overall_score |-> RMin(overall_score, One),
         skill_score |-> s.skill_score,
         experience_score |-> s.experience_score,
         education_score |-> s.education_score,
         semantic_score |-> s.semantic_score]

-----------------------------------------------------------------------------
(* Experience scorer, applied to bounded inputs.                           *)

MaxCandidateHalfYears == 16
MaxRequiredYears == 4

InitExp ==
    /\ FreshScreener
    /\ pc = "call"
    /\ args \in [candidate_experience : {R(h, 2) : h \in 0..MaxCandidateHalfYears},
                 required_experience : 0..MaxRequiredYears]
    /\ ret = Zero
    /\ weights = ReferenceWeights

ExperienceCall ==
    /\ pc = "call"
    /\ ret' = calculate_experience_score(args.candidate_experience,
                                         args.required_experience)
    /\ pc' = "done"
    /\ UNCHANGED <<args, weights, vectorizer, rankVars>>

SpecExp == InitExp /\ [][ExperienceCall]_vars

\* C1: for m > 0 and c >= m the experience scorer returns
\* 1.0 + min((c - m) / m * 0.2, 0.2): above 1.0 whenever c > m and 1.2 once
\* c >= 2m.
C1_BonusAboveOne ==
    (pc = "done" /\ args.required_experience > 0
       /\ RLe(R(args.required_experience, 1), args.candidate_experience))
    => LET c == args.candidate_experience
           m == R(args.required_experience, 1)
       IN  REq(ret, RAdd(One, RMin(RMul(RDiv(RSub(c, m), m), R(1, 5)), R(1, 5))))

-----------------------------------------------------------------------------
(* Education scorer, applied to every pair of labels.                      *)

\* config.EDUCATION_HIERARCHY, the full Education Tier Scale
EDUCATION_HIERARCHY ==
    [phd |-> 5, doctorate |-> 5, masters |-> 4, mba |-> 4, bachelors |-> 3,
     associate |-> 2, diploma |-> 2, high_school |-> 1, unknown |-> 0]

\* the tier of a label on the full scale, unrecognised labels at 0
TierOf(label) ==
    LET l == LowerStr(label)
    IN  IF l \in DOMAIN EDUCATION_HIERARCHY THEN EDUCATION_HIERARCHY[l] ELSE 0

EducationLabels ==
    {"phd", "doctorate", "masters", "mba", "bachelors", "associate", "diploma",
     "high_school", "unknown", "not_specified", "Bachelors", "PhD"}

InitEdu ==
    /\ FreshScreener
    /\ pc = "call"
    /\ args \in [candidate_education : EducationLabels,
                 required_education : EducationLabels]
    /\ ret = Zero
    /\ weights = ReferenceWeights

EducationCall ==
    /\ pc = "call"
    /\ ret' = calculate_education_score(args.candidate_education,
                                        args.required_education)
    /\ pc' = "done"
    /\ UNCHANGED <<args, weights, vectorizer, rankVars>>

SpecEdu == InitEdu /\ [][EducationCall]_vars

\* C3: against every required tier >= 1 a candidate of tier 0 (unknown or
\* unrecognised label) scores exactly 0.0, high_school included.
C3_UnknownCandidateScoresZero ==
    (pc = "done" /\ TierOf(args.required_education) >= 1
       /\ TierOf(args.candidate_education) = 0)
    => REq(ret, Zero)

\* the canonical label of an alias of the Education Tier Scale
CanonicalLabel(label) ==
    CASE label = "diploma" -> "associate"
      [] label = "mba" -> "masters"
      [] label = "doctorate" -> "phd"
      [] OTHER -> label

\* C4: the alias labels diploma, mba and doctorate sit on the same tier as
\* associate, masters and phd, so a candidate carrying an alias scores as
\* the canonical label does against every required label.
C4_AliasScoresAsCanonical ==
    (pc = "done" /\ args.candidate_education \in {"diploma", "mba", "doctorate"})
    => REq(ret, calculate_education_score(CanonicalLabel(args.candidate_education),
                                          args.required_education))

-----------------------------------------------------------------------------
(* Skill scorer, applied to bounded lists of str.                          *)

MaxResumeSkills == 2
MaxRequiredSkills == 3
MaxPreferredSkills == 2

SkillStrings == {"python", "Python", "sql"}
StrSkills == {Str(s) : s \in SkillStrings}

InitSkill ==
    /\ FreshScreener
    /\ pc = "call"
    /\ args \in [resume_skills : SeqsUpTo(StrSkills, MaxResumeSkills),
                 required_skills : SeqsUpTo(StrSkills, MaxRequiredSkills),
                 preferred_skills : SeqsUpTo(StrSkills, MaxPreferredSkills)]
    /\ ret = Zero
    /\ weights = ReferenceWeights

SkillCall ==
    /\ pc = "call"
    /\ ~skill_score_raises(args.resume_skills, args.required_skills,
                           args.preferred_skills)
    /\ ret' = calculate_skill_score(args.resume_skills, args.required_skills,
                                    args.preferred_skills)
    /\ pc' = "done"
    /\ UNCHANGED <<args, weights, vectorizer, rankVars>>

SpecSkill == InitSkill /\ [][SkillCall]_vars

\* the lower-cased, deduplicated set of a skill list
SkillSet(list) == {LowerStr(list[i][2]) : i \in DOMAIN list}

\* the score over the deduplicated sets
DedupSkillScore(resume_skills, required_skills, preferred_skills) ==
    LET cand == SkillSet(resume_skills)
        req == SkillSet(required_skills)
        pref == SkillSet(preferred_skills)
        coverage == IF req = {} THEN One
                    ELSE R(Cardinality(req \cap cand), Cardinality(req))
        bonus == IF pref = {} THEN Zero
                 ELSE RMul(R(Cardinality(pref \cap cand), Cardinality(pref)), R(1, 5))
    IN  RMin(RAdd(coverage, bonus), One)

\* C2: the skill score is min(|required n candidate| / |required| +
\* 0.2 * |preferred n candidate| / |preferred|, 1.0) over the lower-cased,
\* deduplicated lists, so repeating an entry of a list changes nothing.
C2_ScoreOverDeduplicatedSets ==
    pc = "done"
    => REq(ret, DedupSkillScore(args.resume_skills, args.required_skills,
                                args.preferred_skills))

-----------------------------------------------------------------------------
(* The aggregator, applied to sample records under the weight              *)
(* configurations an engine can hold.                                      *)

\* the example configuration of config.py for entry-level positions
EntryLevelWeights ==
    [skills |-> 35, experience |-> 15, education |-> 30, semantic |-> 20]

\* a configuration whose weights sum to more than 1.0
HeavyWeights ==
    [skills |-> 60, experience |-> 40, education |-> 30, semantic |-> 20]

\* a configuration with a negative weight
NegativeWeights ==
    [skills |-> -40, experience |-> 25, education |-> 15, semantic |-> 20]

WeightConfigs == {ReferenceWeights, EntryLevelWeights, HeavyWeights, NegativeWeights}

HasNegativeWeight(w) == \E k \in DOMAIN w : w[k] < 0

SampleResumes ==
    [skills : {<<>>, <<Str("Python")>>, <<Str("python"), Str("sql")>>},
     years_experience : {R(0, 1), R(3, 1), R(6, 1)},
     education_level : {"unknown", "bachelors", "masters"},
     raw_text : Texts]

SampleJobs ==
    [required_skills : {<<>>, <<Str("python"), Str("sql")>>},
     preferred_skills : {<<>>, <<Str("sql")>>},
     min_experience : {0, 5},
     education_requirement : {"not_specified", "masters"},
     description : {"", "python django"}]

\* args.weights is the configuration the caller wants for this call; the
\* signature of calculate_overall_score has no parameter to carry it
InitScore ==
    /\ FreshScreener
    /\ pc = "call"
    /\ args \in [resume_data : SampleResumes,
                 job_requirements : SampleJobs,
                 weights : WeightConfigs]
    /\ ret = [kind |-> "none"]
    /\ weights = ReferenceWeights

\* engine.weights is a public attribute: configuring the engine assigns it
SetWeights(w) ==
    /\ pc = "call"
    /\ weights' = w
    /\ UNCHANGED <<pc, args, ret, vectorizer, rankVars>>

OverallCall ==
    /\ pc = "call"
    /\ ret' = IF overall_score_raises(args.resume_data, args.job_requirements)
              THEN [kind |-> "raise", exc |-> "AttributeError"]
              ELSE [kind |-> "return",
                    value |-> calculate_overall_score(args.resume_data,
                                                      args.job_requirements,
                                                      weights)]
    /\ vectorizer' = vectorizer_after(args.resume_data, args.job_requirements,
                                      vectorizer)
    /\ pc' = "done"
    /\ UNCHANGED <<args, weights, rankVars>>

NextScore == (\E w \in WeightConfigs : SetWeights(w)) \/ OverallCall

SpecScore == InitScore /\ [][NextScore]_vars

\* the four sub-scores as the scorers return them for the arguments
SubScores(resume_data, job_requirements) ==
    [skill_score |->
        calculate_skill_score(resume_data.skills, job_requirements.required_skills,
                              job_requirements.preferred_skills),
     experience_score |->
        calculate_experience_score(resume_data.years_experience,
                                   job_requirements.min_experience),
     education_score |->
        calculate_education_score(resume_data.education_level,
                                  job_requirements.education_requirement),
     semantic_score |->
        calculate_semantic_score(resume_data.raw_text, job_requirements.description)]

\* the returned vector is the clamped plain weighted sum under w together
\* with the scorers' own outputs
AggregatesUnder(w) ==
    LET sub == SubScores(args.resume_data, args.job_requirements)
        sum == WeightedSum(sub.skill_score, sub.experience_score,
                           sub.education_score, sub.semantic_score, w)
    IN  /\ REq(ret.value.overall_score, IF RLe(sum, One) THEN sum ELSE One)
        /\ ret.value.skill_score = sub.skill_score
        /\ ret.value.experience_score = sub.experience_score
        /\ ret.value.education_score = sub.education_score
        /\ ret.value.semantic_score = sub.semantic_score

C6_NegativeWeightRejected ==
    (pc = "done" /\ HasNegativeWeight(weights))
    => (ret.kind = "raise" /\ ret.exc = "InvalidConfiguration")

-----------------------------------------------------------------------------
(* DatabaseManager: the jobpostings table.                                 *)

\* json.dumps / json.loads of a list of str: the text of the list, and the
\* list the text denotes
json_dumps(list) == <<"json", list>>
json_loads(text) == text[2]

\* the value None
None == [kind |-> "None"]

\* cursor.lastrowid after an INSERT INTO jobpostings: jobid is the table's
\* integer primary key, one more than the largest one in use (no row of
\* jobpostings is ever deleted)
lastrowid(table) == Len(table) + 1

\* the row written by insert_job_posting; lastrowid is the new jobid
insert_job_posting(table, jobdata) ==
    Append(table,
           [jobid |-> lastrowid(table),
            title |-> Get(jobdata, "title", "None"),
            description |-> Get(jobdata, "description", "None"),
            requiredskills |-> json_dumps(Get(jobdata, "required_skills", <<>>)),
            preferredskills |-> json_dumps(Get(jobdata, "preferred_skills", <<>>)),
            minexperience |-> Get(jobdata, "min_experience", 0),
            educationlevel |-> Get(jobdata, "education_requirement", "not_specified")])

\* get_job_posting without the json.loads of preferredskills: the column's
\* text is returned as it is stored
get_job_posting_preferred_as_stored(table, jobid) ==
    IF jobid \in DOMAIN table
    THEN LET job == table[jobid]
         IN  [job EXCEPT !.requiredskills = json_loads(job.requiredskills)]
    ELSE None

\* SELECT * FROM jobpostings WHERE jobid = ?, as a dict keyed by column
get_job_posting(table, jobid) ==
    IF jobid \in DOMAIN table
    THEN LET job == table[jobid]
         IN  [job EXCEPT !.requiredskills = json_loads(job.requiredskills),
                         !.preferredskills = json_loads(job.preferredskills)]
    ELSE None

-----------------------------------------------------------------------------
(* The ranking table and the ranker.  main_application.py calls            *)
(* delete_rankings_for_job, insert_resume_ranking, get_top_candidates and  *)
(* rank_resumes; database_manager.py and matching_engine.py define none of *)
(* them.  They are written here as the specification describes them, each  *)
(* database call a committed statement like the ones of insert_job_posting.*)

\* DELETE of the rows of one job
delete_rankings_for_job(table, job_id) ==
    SelectSeq(table, LAMBDA row : row.job_id # job_id)

\* INSERT of one row
insert_resume_ranking(table, ranking_data) == Append(table, ranking_data)

\* the rows of one job, best rank first, at most top_n of them; the rows of
\* a job are inserted in rank order after its rows were deleted
db_get_top_candidates(table, job_id, top_n) ==
    LET rows == SelectSeq(table, LAMBDA row : row.job_id = job_id)
    IN  SubSeq(rows, 1, IF Len(rows) < top_n THEN Len(rows) ELSE top_n)

\* the sort with an entry placed before the entries of equal score
RECURSIVE SortByScoreDesc_unstable(_)
SortByScoreDesc_unstable(list) ==
    IF list = <<>> THEN <<>>
    ELSE LET n == Len(list)
             x == list[n]
             rest == SortByScoreDesc_unstable(SubSeq(list, 1, n - 1))
             k == Cardinality({i \in DOMAIN rest :
                                 RLt(x.scores.overall_score,
                                     rest[i].scores.overall_score)})
         IN  SubSeq(rest, 1, k) \o <<x>> \o SubSeq(rest, k + 1, Len(rest))

\* stable sort by overall score, descending
RECURSIVE SortByScoreDesc(_)
SortByScoreDesc(list) ==
    IF list = <<>> THEN <<>>
    ELSE LET n == Len(list)
             x == list[n]
             rest == SortByScoreDesc(SubSeq(list, 1, n - 1))
             k == Cardinality({i \in DOMAIN rest :
                                 RLe(x.scores.overall_score,
                                     rest[i].scores.overall_score)})
         IN  SubSeq(rest, 1, k) \o <<x>> \o SubSeq(rest, k + 1, Len(rest))

\* rank_resumes raises what scoring one of the resumes raises
rank_resumes_raises(resumes, job_data) ==
    \E i \in DOMAIN resumes : overall_score_raises(resumes[i], job_data)

\* self.vectorizer after the resumes were scored in input order, v before:
\* the scoring stops at the first resume that raises
RECURSIVE vectorizer_after_ranking(_, _, _)
vectorizer_after_ranking(resumes, job_data, v) ==
    IF resumes = <<>> THEN v
    ELSE IF overall_score_raises(Head(resumes), job_data) THEN v
    ELSE vectorizer_after_ranking(Tail(resumes), job_data,
                                  vectorizer_after(Head(resumes), job_data, v))

\* every resume scored against the job, sorted by overall score descending,
\* ranks 1..N; a score vector carries the keys its caller reads
rank_resumes(resumes, job_data, selfweights) ==
    LET scored ==
            [i \in DOMAIN resumes |->
                LET v == calculate_overall_score(resumes[i], job_data, selfweights)
                IN  [resume |-> resumes[i],
                     scores |-> [overall_score |-> v.overall_score,
                                 skills_score |-> v.skill_score,
                                 experience_score |-> v.experience_score,
                                 education_score |-> v.education_score,
                                 semantic_score |-> v.semantic_score]]]
        sorted == SortByScoreDesc(scored)
    IN  [i \in DOMAIN sorted |->
            [resume |-> sorted[i].resume, scores |-> sorted[i].scores, rank |-> i]]

-----------------------------------------------------------------------------
(* ResumeScreener: add_job_posting, rank_resumes_for_job and a reader.     *)

MaxJobs == 2
MaxResumes == 2
\* top_n of get_top_candidates
DefaultTopN == 10

\* the analysis of the id-th job description, as analyze_job returns it
JobAnalysis(id) ==
    IF id % 2 = 1
    THEN [title |-> "Senior Python Developer", description |-> "python django",
          required_skills |-> <<Str("python"), Str("sql")>>,
          preferred_skills |-> <<Str("aws")>>,
          min_experience |-> 5, education_requirement |-> "bachelors"]
    ELSE [title |-> "Junior Python Developer", description |-> "python",
          required_skills |-> <<Str("python")>>,
          preferred_skills |-> <<>>,
          min_experience |-> 2, education_requirement |-> "not_specified"]

\* ResumeParser.extract_skills on the texts of the model: one dict entry
\* for every keyword that is a substring of the text ("go" is one of
\* "django"), in the order of the keyword table
extract_skills(text) ==
    CASE text = "python" -> <<<<"dict", "python", "programming">>>>
      [] text = "python django" ->
            <<<<"dict", "python", "programming">>, <<"dict", "go", "programming">>,
              <<"dict", "django", "web">>>>
      [] OTHER -> <<>>

\* a resume record built by the caller, skills a list of str, like
\* sample_resume of matching_engine.py
ResumeData(id) ==
    [resume_id |-> id,
     raw_text |-> IF id % 2 = 1 THEN "python django" ELSE "python",
     skills |-> <<Str("Python")>>,
     years_experience |-> R(id, 1),
     education_level |-> "bachelors"]

\* a resume record as parse_resume and batch_process_resumes produce it
ParsedResume(id) ==
    [resume_id |-> id,
     raw_text |-> "python django",
     skills |-> extract_skills("python django"),
     years_experience |-> R(6, 1),
     education_level |-> "bachelors"]

ResumeIds == 1..MaxResumes

\* the lists of resumes with distinct identifiers, in the order the
\* resumes were inserted (resume_id is the lastrowid of the insert): the
\* lists of caller-built resumes, and each of them followed by a parsed
\* resume
CallerLists ==
    {[i \in DOMAIN ids |-> ResumeData(ids[i])] :
        ids \in {l \in SeqsUpTo(ResumeIds, MaxResumes) :
                    \A i, j \in DOMAIN l : i < j => l[i] < l[j]}}

ResumeLists ==
    CallerLists \cup {Append(l, ParsedResume(MaxResumes + 1)) : l \in CallerLists}

\* the resumes argument: a list, or the default None
ResumesArguments ==
    {[given |-> TRUE, list |-> l] : l \in ResumeLists}
        \cup {[given |-> FALSE, list |-> <<>>]}

\* the rows of one job in the ranking table
RowsOf(table, job_id) == SelectSeq(table, LAMBDA row : row.job_id = job_id)

InitRank ==
    /\ FreshScreener
    /\ pc = "idle"
    /\ args = [kind |-> "none"]
    /\ ret = [kind |-> "none"]
    /\ weights = ReferenceWeights

\* add_job_posting: insert_job_posting of the analysed job
AddJobPosting ==
    /\ rkpc = "idle"
    /\ Len(jobpostings) < MaxJobs
    /\ jobpostings' =
          insert_job_posting(jobpostings, JobAnalysis(Len(jobpostings) + 1))
    /\ UNCHANGED <<scorerVars, weights, vectorizer, rankings, rkpc, run, outcome, seen>>

\* the call with `if not resumes` in place of `if resumes is None`: an empty
\* list is taken for a missing one
RankBegin_empty_is_missing(job_id, resumes) ==
    /\ rkpc = "idle"
    /\ LET job_data == get_job_posting(jobpostings, job_id)
       IN  IF job_data = None \/ ~resumes.given \/ resumes.list = <<>>
           THEN /\ outcome' = [kind |-> "return", none |-> TRUE, value |-> <<>>]
                /\ UNCHANGED <<rkpc, run>>
           ELSE /\ run' = [kind |-> "run", job_id |-> job_id, resumes |-> resumes,
                           job_data |-> job_data, before |-> rankings,
                           ranked_resumes |-> <<>>, saved |-> 0]
                /\ outcome' = [kind |-> "none"]
                /\ rkpc' = "delete"
    /\ UNCHANGED <<scorerVars, weights, vectorizer, jobpostings, rankings, seen>>

\* rank_resumes_for_job, lines 98-112: the job is fetched; an unknown job
\* and a missing resumes list each print a message and return.  run holds
\* the arguments and locals of the call while it lasts; run.before remembers
\* the ranking table as it was when the call began.
RankBegin(job_id, resumes) ==
    /\ rkpc = "idle"
    /\ LET job_data == get_job_posting(jobpostings, job_id)
       IN  IF job_data = None \/ ~resumes.given
           THEN /\ outcome' = [kind |-> "return", none |-> TRUE, value |-> <<>>]
                /\ UNCHANGED <<rkpc, run>>
           ELSE /\ run' = [kind |-> "run", job_id |-> job_id, resumes |-> resumes,
                           job_data |-> job_data, before |-> rankings,
                           ranked_resumes |-> <<>>, saved |-> 0]
                /\ outcome' = [kind |-> "none"]
                /\ rkpc' = "delete"
    /\ UNCHANGED <<scorerVars, weights, vectorizer, jobpostings, rankings, seen>>

\* the run without the delete of line 115
RankDelete_skipped ==
    /\ rkpc = "delete"
    /\ rkpc' = "rank"
    /\ UNCHANGED <<scorerVars, weights, vectorizer, jobpostings, rankings, run, outcome, seen>>

\* line 115
RankDelete ==
    /\ rkpc = "delete"
    /\ rankings' = delete_rankings_for_job(rankings, run.job_id)
    /\ rkpc' = "rank"
    /\ UNCHANGED <<scorerVars, weights, vectorizer, jobpostings, run, outcome, seen>>

\* line 119
RankScore ==
    /\ rkpc = "rank"
    /\ ~rank_resumes_raises(run.resumes.list, run.job_data)
    /\ run' = [run EXCEPT !.ranked_resumes =
                  rank_resumes(run.resumes.list, run.job_data, weights)]
    /\ vectorizer' = vectorizer_after_ranking(run.resumes.list, run.job_data,
                                              vectorizer)
    /\ rkpc' = "save"
    /\ UNCHANGED <<scorerVars, weights, jobpostings, rankings, outcome, seen>>

\* line 119 when a scorer raises: the exception leaves rank_resumes_for_job
RankScoreRaises ==
    /\ rkpc = "rank"
    /\ rank_resumes_raises(run.resumes.list, run.job_data)
    /\ vectorizer' = vectorizer_after_ranking(run.resumes.list, run.job_data,
                                              vectorizer)
    /\ outcome' = [kind |-> "raise", exc |-> "AttributeError"]
    /\ rkpc' = "idle"
    /\ run' = [kind |-> "none"]
    /\ UNCHANGED <<scorerVars, weights, jobpostings, rankings, seen>>

\* the loop of lines 123-134 storing the position counted from 0 in place
\* of the rank
RankSave_position_from_zero ==
    /\ rkpc = "save"
    /\ run.saved < Len(run.ranked_resumes)
    /\ LET entry == run.ranked_resumes[run.saved + 1]
           ranking_data ==
               [job_id |-> run.job_id,
                resume_id |-> entry.resume.resume_id,
                overall_score |-> entry.scores.overall_score,
                skills_score |-> entry.scores.skills_score,
                experience_score |-> entry.scores.experience_score,
                education_score |-> entry.scores.education_score,
                semantic_score |-> entry.scores.semantic_score,
                rank_position |-> run.saved]
       IN  rankings' = insert_resume_ranking(rankings, ranking_data)
    /\ run' = [run EXCEPT !.saved = @ + 1]
    /\ UNCHANGED <<scorerVars, weights, vectorizer, jobpostings, rkpc, outcome, seen>>

\* lines 123-134, one iteration
RankSave ==
    /\ rkpc = "save"
    /\ run.saved < Len(run.ranked_resumes)
    /\ LET entry == run.ranked_resumes[run.saved + 1]
           ranking_data ==
               [job_id |-> run.job_id,
                resume_id |-> entry.resume.resume_id,
                overall_score |-> entry.scores.overall_score,
                skills_score |-> entry.scores.skills_score,
                experience_score |-> entry.scores.experience_score,
                education_score |-> entry.scores.education_score,
                semantic_score |-> entry.scores.semantic_score,
                rank_position |-> entry.rank]
       IN  rankings' = insert_resume_ranking(rankings, ranking_data)
    /\ run' = [run EXCEPT !.saved = @ + 1]
    /\ UNCHANGED <<scorerVars, weights, vectorizer, jobpostings, rkpc, outcome, seen>>

\* lines 136-138
RankReturn ==
    /\ rkpc = "save"
    /\ run.saved = Len(run.ranked_resumes)
    /\ outcome' = [kind |-> "return", none |-> FALSE, value |-> run.ranked_resumes]
    /\ rkpc' = "idle"
    /\ run' = [kind |-> "none"]
    /\ UNCHANGED <<scorerVars, weights, vectorizer, jobpostings, rankings, seen>>

\* the run is cancelled, or a statement of it fails, at any point after its
\* start: the exception leaves rank_resumes_for_job, which has no handler
RankCancel ==
    /\ rkpc \in {"delete", "rank", "save"}
    /\ outcome' = [kind |-> "raise", exc |-> "Cancelled"]
    /\ rkpc' = "idle"
    /\ run' = [kind |-> "none"]
    /\ UNCHANGED <<scorerVars, weights, vectorizer, jobpostings, rankings, seen>>

\* get_top_candidates by a reader of the database, at any moment
ReadTopCandidates(job_id) ==
    /\ seen' = [kind |-> "read", job_id |-> job_id,
                rows |-> db_get_top_candidates(rankings, job_id, DefaultTopN)]
    /\ UNCHANGED <<scorerVars, weights, vectorizer, jobpostings, rankings, rkpc, run, outcome>>

NextRank ==
    \/ AddJobPosting
    \/ \E job_id \in 1..(MaxJobs + 1), resumes \in ResumesArguments :
          RankBegin(job_id, resumes)
    \/ RankDelete
    \/ RankScore
    \/ RankScoreRaises
    \/ RankSave
    \/ RankReturn
    \/ RankCancel

SpecRank == InitRank /\ [][NextRank]_vars

\* the same with a reader of the ranking table beside the ranking run
NextRead == NextRank \/ \E job_id \in 1..MaxJobs : ReadTopCandidates(job_id)

SpecRead == InitRank /\ [][NextRead]_vars

JobIdsOf(table) == {table[i].job_id : i \in DOMAIN table}
ResumeIdsOf(list) == {list[i].resume_id : i \in DOMAIN list}

\* at most one row per (job, resume) pair
AtMostOneActiveEntry ==
    \A i, j \in DOMAIN rankings :
        (rankings[i].job_id = rankings[j].job_id
           /\ rankings[i].resume_id = rankings[j].resume_id) => i = j

\* the rows of the run's job are one row per resume of the run's input and
\* nothing else, and the rows of every other job are those of before the run
RunReplacedItsJob ==
    LET rows == RowsOf(rankings', run.job_id)
        input == run.resumes.list
    IN  /\ Len(rows) = Len(input)
        /\ ResumeIdsOf(rows) = {input[i].resume_id : i \in DOMAIN input}
        /\ \A j \in JobIdsOf(run.before) \cup JobIdsOf(rankings') :
              j # run.job_id => RowsOf(rankings', j) = RowsOf(run.before, j)

\* C7: when a ranking run of a job completes, the job's stored entries are
\* exactly those of that run, one per resume of its input and none of an
\* earlier run, the entries of other jobs are as they were, and at no time
\* has a (job, resume) pair more than one entry.
C7_FullReplace ==
    []AtMostOneActiveEntry /\ [][RankReturn => RunReplacedItsJob]_vars

\* a run that has saved its last entry, of two or more resumes, for a job
\* whose earlier entries were others, while another job has entries
C7_Witness ==
    /\ rkpc = "save"
    /\ run.saved = Len(run.ranked_resumes)
    /\ run.saved >= 2
    /\ RowsOf(run.before, run.job_id) # <<>>
    /\ RowsOf(run.before, run.job_id) # RowsOf(rankings, run.job_id)
    /\ \E j \in JobIdsOf(rankings) : j # run.job_id

\* the rows the run in progress will have stored for its job once complete
NewRows ==
    LET ranked == rank_resumes(run.resumes.list, run.job_data, weights)
    IN  [i \in DOMAIN ranked |->
            [job_id |-> run.job_id,
             resume_id |-> ranked[i].resume.resume_id,
             overall_score |-> ranked[i].scores.overall_score,
             skills_score |-> ranked[i].scores.skills_score,
             experience_score |-> ranked[i].scores.experience_score,
             education_score |-> ranked[i].scores.education_score,
             semantic_score |-> ranked[i].scores.semantic_score,
             rank_position |-> ranked[i].rank]]

\* a read of the job under re-rank, the job having had a ranking set
ReadDuringRerank ==
    /\ rkpc # "idle"
    /\ RowsOf(run.before, run.job_id) # <<>>
    /\ ReadTopCandidates(run.job_id)

\* C8: a reader of a job's rankings interleaved with a re-rank of that job
\* sees the complete old set or the complete new set, never an empty,
\* partial or mixed one.
C8_ReaderSeesOldOrNew ==
    [][ReadDuringRerank =>
          \/ seen'.rows = RowsOf(run.before, run.job_id)
          \/ /\ ~rank_resumes_raises(run.resumes.list, run.job_data)
             /\ seen'.rows = NewRows]_vars

\* C9: a re-rank that is cancelled or fails after it has started leaves the
\* job's previous ranking set exactly as it was.
C9_FailedRerankKeepsOldSet ==
    [][(rkpc # "idle" /\ RowsOf(run.before, run.job_id) # <<>>
          /\ outcome'.kind = "raise")
          => RowsOf(rankings', run.job_id) = RowsOf(run.before, run.job_id)]_vars

\* C10: ranking an unknown job identifier ends in a NotFound error, with no
\* result and no ranking entry of any job deleted or inserted.
C10_UnknownJobIsNotFound ==
    [][(\E job_id \in 1..(MaxJobs + 1), resumes \in ResumesArguments :
            /\ get_job_posting(jobpostings, job_id) = None
            /\ RankBegin(job_id, resumes))
          => /\ outcome'.kind = "raise"
             /\ outcome'.exc = "NotFound"
             /\ rankings' = rankings]_vars

-----------------------------------------------------------------------------
(* The ranker, applied to bounded lists of resumes.                        *)

MaxRankedResumes == 3

\* the resume at position i of the input carries resume_id i
RankerResumes(i) ==
    [resume_id : {i},
     raw_text : {"python", "python django"},
     skills : {<<Str("Python")>>},
     years_experience : {R(2, 1), R(6, 1)},
     education_level : {"bachelors"}]

RankerLists ==
    UNION {{l \in [1..n -> UNION {RankerResumes(i) : i \in 1..n}] :
               \A i \in 1..n : l[i].resume_id = i} : n \in 0..MaxRankedResumes}

\* a job as the analyzer returns it, and the same job as get_job_posting
\* returns it from the table
RankerJobs ==
    {JobAnalysis(1), get_job_posting(insert_job_posting(<<>>, JobAnalysis(1)), 1)}

InitRanker ==
    /\ FreshScreener
    /\ pc = "call"
    /\ args \in [resumes : RankerLists, job_data : RankerJobs]
    /\ ret = <<>>
    /\ weights = ReferenceWeights

RankerCall ==
    /\ pc = "call"
    /\ ~rank_resumes_raises(args.resumes, args.job_data)
    /\ ret' = rank_resumes(args.resumes, args.job_data, weights)
    /\ vectorizer' = vectorizer_after_ranking(args.resumes, args.job_data, vectorizer)
    /\ pc' = "done"
    /\ UNCHANGED <<args, weights, rankVars>>

SpecRanker == InitRanker /\ [][RankerCall]_vars

\* C11: the ranker returns one entry per candidate, sorted by overall score
\* in descending order, the i-th entry with rank i, and candidates of equal
\* overall score in the order of the input sequence.
C11_SortedDescendingStable ==
    pc = "done"
    => /\ Len(ret) = Len(args.resumes)
       /\ \A i \in DOMAIN ret :
             /\ ret[i].rank = i
             /\ ret[i].resume = args.resumes[ret[i].resume.resume_id]
             /\ ret[i].scores.overall_score =
                   calculate_overall_score(ret[i].resume, args.job_data,
                                           weights).overall_score
       /\ \A i, j \in DOMAIN ret :
             i < j => /\ RLe(ret[j].scores.overall_score, ret[i].scores.overall_score)
                      /\ REq(ret[j].scores.overall_score, ret[i].scores.overall_score)
                            => ret[i].resume.resume_id < ret[j].resume.resume_id

\* a ranking of three candidates, two of them of equal overall score, whose
\* order is not the order of the input
C11_Witness ==
    /\ pc = "done"
    /\ Len(ret) = 3
    /\ REq(ret[2].scores.overall_score, ret[3].scores.overall_score)
    /\ RLt(ret[2].scores.overall_score, ret[1].scores.overall_score)
    /\ ret[1].resume.resume_id = 3

-----------------------------------------------------------------------------
(* Further properties of the ranking run.                                  *)

\* C12: a ranking run of a job with N resumes returns N entries and leaves
\* the job N stored entries whose rank positions are exactly 1..N, every
\* resume of the input in exactly one of them.
C12_RanksArePermutation ==
    [][RankReturn =>
          LET rows == RowsOf(rankings', run.job_id)
              input == run.resumes.list
              N == Len(input)
          IN  /\ Len(outcome'.value) = N
              /\ {outcome'.value[i].rank : i \in 1..N} = 1..N
              /\ Len(rows) = N
              /\ {rows[i].rank_position : i \in 1..N} = 1..N
              /\ \A r \in 1..N :
                    Cardinality({i \in 1..N :
                                   rows[i].resume_id = input[r].resume_id}) = 1]_vars

\* a run of two resumes that has stored its last entry, the better
\* candidate being the second of the input
C12_Witness ==
    /\ rkpc = "save"
    /\ run.saved = Len(run.ranked_resumes)
    /\ Len(run.resumes.list) = 2
    /\ run.ranked_resumes[1].resume = run.resumes.list[2]
    /\ RowsOf(rankings, run.job_id)[2].rank_position = 2

\* a call for an existing job with the empty list of resumes begins
EmptyListBegin ==
    \E job_id \in 1..MaxJobs :
        /\ get_job_posting(jobpostings, job_id) # None
        /\ RankBegin(job_id, [given |-> TRUE, list |-> <<>>])

\* a run on the empty list ends, other than by cancellation
EmptyListEnd ==
    /\ rkpc # "idle"
    /\ run.resumes.list = <<>>
    /\ rkpc' = "idle"
    /\ ~RankCancel

\* C13: ranking the empty list of resumes for an existing job is carried
\* out like any ranking run and returns the empty list, neither an error
\* nor the 'nothing done' result, and the job is left with no ranking entry.
C13_EmptyListRanksToEmpty ==
    /\ [][EmptyListBegin => (rkpc' = "delete" /\ outcome'.kind = "none")]_vars
    /\ [][EmptyListEnd =>
             /\ outcome' = [kind |-> "return", none |-> FALSE, value |-> <<>>]
             /\ RowsOf(rankings', run.job_id) = <<>>]_vars

\* a run on the empty list that is about to return, for a job that had
\* ranking entries before it
C13_Witness ==
    /\ rkpc = "save"
    /\ run.resumes.list = <<>>
    /\ run.ranked_resumes = <<>>
    /\ RowsOf(run.before, run.job_id) # <<>>
    /\ RowsOf(rankings, run.job_id) = <<>>

-----------------------------------------------------------------------------
(* Further properties of the aggregator.                                   *)

InUnitInterval(q) == RLe(Zero, q) /\ RLe(q, One)

-----------------------------------------------------------------------------
(* Several pairs evaluated on one engine by concurrent workers.  Every     *)
(* worker calls calculate_overall_score on its own pair; the calls share   *)
(* self.vectorizer, whose fit_transform first fits the vectorizer to the   *)
(* documents (storing their idf vector in it) and then transforms the      *)
(* documents with the vectorizer as it then is.                            *)

NumWorkers == 2
Workers == 1..NumWorkers

WorkerPairs ==
    [resume_data : {[ResumeData(1) EXCEPT !.raw_text = t] : t \in Texts},
     job_requirements : {[JobAnalysis(1) EXCEPT !.description = t] : t \in Texts}]

DocumentsOf(pair) == <<pair.resume_data.raw_text, pair.job_requirements.description>>

InitWorkers ==
    /\ FreshScreener
    /\ pc = [t \in Workers |-> "fit"]
    /\ args \in [Workers -> WorkerPairs]
    /\ ret = [t \in Workers |-> [kind |-> "none"]]
    /\ weights = ReferenceWeights

\* lines 80-92, and line 73 up to the fit: an empty vocabulary raises
\* ValueError, which line 76 turns into 0.0
WorkerFit(t) ==
    /\ pc[t] = "fit"
    /\ IF fit_transform_raises(DocumentsOf(args[t]))
       THEN /\ ret' = [ret EXCEPT ![t] =
                          [kind |-> "return",
                           value |-> score_vector(args[t].resume_data,
                                                  args[t].job_requirements,
                                                  Zero, weights)]]
            /\ pc' = [pc EXCEPT ![t] = "done"]
            /\ UNCHANGED vectorizer
       ELSE /\ vectorizer' = fitted(DocumentsOf(args[t]))
            /\ pc' = [pc EXCEPT ![t] = "transform"]
            /\ UNCHANGED ret
    /\ UNCHANGED <<args, weights, rankVars>>

\* the rest of line 73, the transform with the vectorizer as it is now, and
\* lines 74-107
WorkerTransform(t) ==
    /\ pc[t] = "transform"
    /\ LET documents == DocumentsOf(args[t])
           semantic_score ==
               IF transform_raises(documents, vectorizer) THEN Zero
               ELSE transform_similarity(documents, vectorizer)
       IN  ret' = [ret EXCEPT ![t] =
                      [kind |-> "return",
                       value |-> score_vector(args[t].resume_data,
                                              args[t].job_requirements,
                                              semantic_score, weights)]]
    /\ pc' = [pc EXCEPT ![t] = "done"]
    /\ UNCHANGED <<args, weights, vectorizer, rankVars>>

NextWorkers == \E t \in Workers : WorkerFit(t) \/ WorkerTransform(t)

SpecWorkers == InitWorkers /\ [][NextWorkers]_vars

\* C15: whatever the interleaving of the workers, the score vector a
\* worker gets for its pair is the one the pair gets when it is evaluated
\* alone on a fresh engine.
C15_PairScoresAsAlone ==
    \A t \in Workers :
        pc[t] = "done"
        => ret[t].value = calculate_overall_score(args[t].resume_data,
                                                  args[t].job_requirements,
                                                  ReferenceWeights)

-----------------------------------------------------------------------------
(* Further properties of the education scorer, the tiers those of the      *)
(* Education Tier Scale.                                                   *)

\* C16: with candidate tier >= 1 and required tier >= 1 the education score
\* is 1.0 when the candidate's tier is at least the required one, 0.7 when
\* it is exactly one step below and 0.4 when it is two or more steps below.
C16_StepsOfKnownCandidate ==
    LET candidate_tier == TierOf(args.candidate_education)
        required_tier == TierOf(args.required_education)
    IN  (pc = "done" /\ candidate_tier >= 1 /\ required_tier >= 1)
        => REq(ret, IF candidate_tier >= required_tier THEN One
                    ELSE IF candidate_tier = required_tier - 1 THEN R(7, 10)
                    ELSE R(4, 10))

\* required tier - candidate tier
Gap(candidate_education, required_education) ==
    TierOf(required_education) - TierOf(candidate_education)

\* C17: over the pairs with required tier >= 1 the education score is 1.0
\* when the gap is <= 0, and among the pairs with gap >= 0 a pair with a
\* larger gap never scores higher than a pair with a smaller gap.
C17_NonIncreasingInGapAlone ==
    (pc = "done" /\ TierOf(args.required_education) >= 1)
    => LET gap == Gap(args.candidate_education, args.required_education)
       IN  /\ gap <= 0 => REq(ret, One)
           /\ \A c \in EducationLabels, r \in EducationLabels :
                 (TierOf(r) >= 1 /\ gap >= 0 /\ Gap(c, r) > gap)
                 => RLe(calculate_education_score(c, r), ret)

-----------------------------------------------------------------------------
(* The aggregator when the vectorization fails.                            *)

\* the vectorization of the two texts of the call fails
VectorizationFails ==
    fit_transform_raises(<<args.resume_data.raw_text,
                           args.job_requirements.description>>)

\* C18: when the vectorization fails the semantic scorer returns 0.0 and no
\* error leaves calculate_overall_score: the returned vector has semantic
\* 0.0, the other three sub-scores as their scorers give them and the
\* clamped weighted sum of the four.
C18_VectorizationFailureIsZero ==
    (pc = "done" /\ VectorizationFails)
    => /\ ret.kind = "return"
       /\ ret.value.semantic_score = Zero
       /\ LET sub == SubScores(args.resume_data, args.job_requirements)
          IN  /\ ret.value.skill_score = sub.skill_score
              /\ ret.value.experience_score = sub.experience_score
              /\ ret.value.education_score = sub.education_score
              /\ REq(ret.value.overall_score,
                     RMin(WeightedSum(sub.skill_score, sub.experience_score,
                                      sub.education_score, Zero, weights),
                          One))

\* a call on two texts without terms whose other sub-scores are not zero
C18_Witness ==
    /\ pc = "done"
    /\ VectorizationFails
    /\ ret.kind = "return"
    /\ ret.value.semantic_score = Zero
    /\ RLt(Zero, ret.value.skill_score)
    /\ RLt(Zero, ret.value.experience_score)
    /\ RLt(Zero, ret.value.overall_score)
    /\ RLt(ret.value.overall_score, One)

-----------------------------------------------------------------------------
(* The experience scorer below the minimum.                                *)

\* C19: for a minimum m > 0 and a candidate experience 0 <= c < m the
\* experience scorer returns c / m: exactly 0.0 at c = 0 and below 1.0 for
\* every c < m.
C19_LinearPartialCredit ==
    LET c == args.candidate_experience
        m == args.required_experience
    IN  (pc = "done" /\ m > 0 /\ RLt(c, R(m, 1)))
        => /\ REq(ret, RDiv(c, R(m, 1)))
           /\ c = Zero => ret = Zero
           /\ RLt(ret, One)

\* a candidate with a year and a half against a minimum of four years
C19_Witness ==
    /\ pc = "done"
    /\ args.candidate_experience = R(3, 2)
    /\ args.required_experience = 4
    /\ ret = R(3, 8)

-----------------------------------------------------------------------------
(* The skill scorer when the candidate's list grows.                       *)

\* the score of the call's candidate with one more skill, the required and
\* preferred lists as they are
ScoreWithOneMore(skill) ==
    calculate_skill_score(Append(args.resume_skills, skill),
                          args.required_skills, args.preferred_skills)

\* C20: the required and preferred lists held fixed, adding a skill to the
\* candidate's list never lowers the skill score.
C20_MonotoneInCandidateSkills ==
    pc = "done" => \A skill \in StrSkills : RLe(ret, ScoreWithOneMore(skill))

\* a candidate who matches one of two required skills and would match both
\* with one more skill
C20_Witness ==
    /\ pc = "done"
    /\ args.resume_skills = <<Str("Python")>>
    /\ args.required_skills = <<Str("python"), Str("sql")>>
    /\ args.preferred_skills = <<>>
    /\ ret = R(1, 2)
    /\ ScoreWithOneMore(Str("sql")) = One

-----------------------------------------------------------------------------
(* The job record the ranking run hands to the scorers.                    *)

\* C21: the skill, experience and education sub-scores computed in a
\* ranking run are those calculate_overall_score computes for the resume on
\* the job record as it was given to insert_job_posting.
C21_RankingScoresAsInserted ==
    [][RankScore =>
          \A i \in DOMAIN run'.ranked_resumes :
              LET entry == run'.ranked_resumes[i]
                  v == calculate_overall_score(entry.resume, JobAnalysis(run.job_id),
                                               weights)
              IN  /\ entry.scores.skills_score = v.skill_score
                  /\ entry.scores.experience_score = v.experience_score
                  /\ entry.scores.education_score = v.education_score]_vars

-----------------------------------------------------------------------------
(* calculate_overall_score applied to resume records as the parser builds  *)
(* them.                                                                   *)

\* parse_resume: skills is what extract_skills finds in the text, the years
\* an integer and the education level a key of education_keywords or
\* "unknown"
ParsedResumes ==
    {[raw_text |-> text,
      skills |-> extract_skills(text),
      years_experience |-> R(years, 1),
      education_level |-> level] :
        text \in Texts, years \in {0, 3, 6},
        level \in {"unknown", "bachelors", "masters"}}

InitParsed ==
    /\ FreshScreener
    /\ pc = "call"
    /\ args \in [resume_data : ParsedResumes, job_requirements : SampleJobs]
    /\ ret = [kind |-> "none"]
    /\ weights = ReferenceWeights

SpecParsed == InitParsed /\ [][OverallCall]_vars

\* the skill names of parser entries, as a list of str
SkillNames(skills) == [i \in DOMAIN skills |-> Str(skills[i][2])]

\* C22: a resume record as the parser produces it is scored by
\* calculate_overall_score without error, and the skill score is the one of
\* the entries' skill names compared case-insensitively, the categories
\* playing no part.
C22_ParsedResumeIsScored ==
    pc = "done" =>
        /\ ret.kind = "return"
        /\ ret.value.skill_score =
               calculate_skill_score(SkillNames(args.resume_data.skills),
                                     args.job_requirements.required_skills,
                                     args.job_requirements.preferred_skills)

-----------------------------------------------------------------------------
(* The match explanation of a score vector, as the sample run of           *)
(* matching_engine.py produces it: calculate_overall_score, then           *)
(* generate_match_explanations on its result.                              *)

\* the lines that "\n".join puts together, in their order
generate_match_explanations(scores) ==
    LET skill ==
            IF RLe(R(4, 5), scores.skill_score) THEN "Excellent skill match"
            ELSE IF RLe(R(3, 5), scores.skill_score) THEN "Good skill match"
            ELSE "Partial skill match"
        experience ==
            IF RLe(R(9, 10), scores.experience_score)
            THEN "Exceeds experience requirement"
            ELSE IF RLe(R(7, 10), scores.experience_score)
                 THEN "Meets experience requirement"
                 ELSE "Below experience requirement"
        education ==
            IF RLe(R(9, 10), scores.education_score)
            THEN <<"Meets education requirement">>
            ELSE <<>>
    IN  <<skill, experience>> \o education

MaxExplainedYears == 6
MaxExplainedMinimum == 5

ExplainedResumes ==
    [skills : {<<>>, <<Str("Python")>>, <<Str("python"), Str("sql")>>},
     years_experience : {R(y, 1) : y \in 0..MaxExplainedYears},
     education_level : {"bachelors", "masters"},
     raw_text : {"python"}]

ExplainedJobs ==
    [required_skills : {<<Str("python"), Str("sql")>>},
     preferred_skills : {<<>>},
     min_experience : 0..MaxExplainedMinimum,
     education_requirement : {"masters"},
     description : {"python django"}]

InitExplain ==
    /\ FreshScreener
    /\ pc = "call"
    /\ args \in [resume_data : ExplainedResumes, job_requirements : ExplainedJobs]
    /\ ret = [kind |-> "none"]
    /\ weights = ReferenceWeights

ExplainCall ==
    /\ pc = "done"
    /\ ret.kind = "return"
    /\ ret' = [kind |-> "explanation", scores |-> ret.value,
               lines |-> generate_match_explanations(ret.value)]
    /\ pc' = "explained"
    /\ UNCHANGED <<args, weights, vectorizer, rankVars>>

NextExplain == OverallCall \/ ExplainCall

SpecExplain == InitExplain /\ [][NextExplain]_vars

Emits(phrase) == \E i \in DOMAIN ret.lines : ret.lines[i] = phrase

\* C23: for a score vector of calculate_overall_score, the explanation says
\* "Below experience requirement" exactly when the candidate's years are
\* below the job's non-zero minimum, and says "Meets experience requirement"
\* or "Exceeds experience requirement" only when the years are at least the
\* minimum.
C23_ExperiencePhraseMatchesYears ==
    pc = "explained" =>
        LET years == args.resume_data.years_experience
            minimum == args.job_requirements.min_experience
            below == minimum # 0 /\ RLt(years, R(minimum, 1))
        IN  /\ Emits("Below experience requirement") <=> below
            /\ (\/ Emits("Meets experience requirement")
                \/ Emits("Exceeds experience requirement"))
                   => RLe(R(minimum, 1), years)

-----------------------------------------------------------------------------
(* DatabaseManager: job postings inserted and read back.  args is the list *)
(* of the insert calls made so far, each with the job id it returned; ret  *)
(* is the result of the last call.                                         *)

MaxInserts == 3

\* job records as analyze_job builds them, and one a caller wrote by hand:
\* the same skills in another order, one of them twice, no experience or
\* education key
JobInputs ==
    {JobAnalysis(1), JobAnalysis(2),
     [title |-> "Data Engineer", description |-> "python",
      required_skills |-> <<Str("sql"), Str("python"), Str("sql")>>,
      preferred_skills |-> <<Str("aws"), Str("python")>>]}

\* job ids a caller may ask for: the ones in use, 0 and the next free ones
AskedJobIds == 0..(MaxInserts + 1)

InitJobs ==
    /\ FreshScreener
    /\ pc = "idle"
    /\ args = <<>>
    /\ ret = [kind |-> "none"]
    /\ weights = ReferenceWeights

InsertJobPosting(jobdata) ==
    /\ Len(jobpostings) < MaxInserts
    /\ jobpostings' = insert_job_posting(jobpostings, jobdata)
    /\ ret' = [kind |-> "insert", jobid |-> lastrowid(jobpostings)]
    /\ args' = Append(args, [jobdata |-> jobdata, jobid |-> lastrowid(jobpostings)])
    /\ UNCHANGED <<pc, weights, vectorizer, rankings, rkpc, run, outcome, seen>>

GetJobPosting(jobid) ==
    /\ ret' = [kind |-> "get", jobid |-> jobid,
               value |-> get_job_posting(jobpostings, jobid)]
    /\ UNCHANGED <<pc, args, weights, vectorizer, rankVars>>

NextJobs ==
    \/ \E jobdata \in JobInputs : InsertJobPosting(jobdata)
    \/ \E jobid \in AskedJobIds : GetJobPosting(jobid)

SpecJobs == InitJobs /\ [][NextJobs]_vars

\* every insert returned an id no earlier insert returned
ReturnedIdsDistinct ==
    \A i, j \in DOMAIN args : i < j => args[i].jobid # args[j].jobid

\* the last get returned what the insert of that id was given, or None
\* for an id no insert returned
GetYieldsInserted ==
    ret.kind = "get" =>
        IF \E i \in DOMAIN args : args[i].jobid = ret.jobid
        THEN \A i \in DOMAIN args :
                args[i].jobid = ret.jobid =>
                    /\ ret.value # None
                    /\ ret.value.title = args[i].jobdata.title
                    /\ ret.value.description = args[i].jobdata.description
                    /\ ret.value.requiredskills = args[i].jobdata.required_skills
                    /\ ret.value.preferredskills = args[i].jobdata.preferred_skills
        ELSE ret.value = None

=============================================================================
